---------------------------- MODULE Spec2Model ----------------------------
(***************************************************************************)
(* Model of the announcements router (backend/routers/announcements.py):   *)
(* six HTTP handlers over one document collection, gated by a teacher      *)
(* lookup.  Text values (messages, dates, ids) are sequences of one-       *)
(* character strings, so that stripping, date parsing, date formatting     *)
(* and the store's string comparison are computed, not assumed.            *)
(***************************************************************************)
EXTENDS Integers, Sequences, FiniteSets, Bags, TLC

(***************************************************************************)
(* Bounds of the model.                                                    *)
(***************************************************************************)
\* how many documents the store hands out ids for (inserts ever made,
\* a document present before the first request included)
MaxRecords == 2
\* how many toggle requests are between their find_one and their update_one
\* at once
MaxProcs == 2

(***************************************************************************)
(* Characters and strings.                                                 *)
(***************************************************************************)
Digits == <<"0", "1", "2", "3", "4", "5", "6", "7", "8", "9">>

IsDigit(c) == \E i \in 1..10 : Digits[i] = c

DigitVal(c) == (CHOOSE i \in 1..10 : Digits[i] = c) - 1

\* code point of a character of the model's alphabet (ASCII)
Ord(c) ==
    IF IsDigit(c) THEN 48 + DigitVal(c)
    ELSE CASE c = "\t" -> 9
           [] c = "\n" -> 10
           [] c = "\f" -> 12
           [] c = "\r" -> 13
           [] c = " " -> 32
           [] c = "+" -> 43
           [] c = "-" -> 45
           [] c = "." -> 46
           [] c = ":" -> 58
           [] c = "A" -> 65
           [] c = "B" -> 66
           [] c = "C" -> 67
           [] c = "D" -> 68
           [] c = "E" -> 69
           [] c = "F" -> 70
           [] c = "T" -> 84
           [] c = "Z" -> 90
           [] c = "a" -> 97
           [] c = "b" -> 98
           [] c = "c" -> 99
           [] c = "d" -> 100
           [] c = "e" -> 101
           [] c = "f" -> 102
           [] c = "n" -> 110
           [] c = "o" -> 111
           [] c = "t" -> 116
           [] c = "x" -> 120
           [] c = "y" -> 121
           [] c = "z" -> 122

\* a < b in the store's binary string order (and Python's)
RECURSIVE StrLess(_, _)
StrLess(a, b) ==
    IF b = <<>> THEN FALSE
    ELSE IF a = <<>> THEN TRUE
    ELSE IF Ord(Head(a)) # Ord(Head(b)) THEN Ord(Head(a)) < Ord(Head(b))
    ELSE StrLess(Tail(a), Tail(b))

StrLeq(a, b) == a = b \/ StrLess(a, b)

\* str.strip(): leading and trailing whitespace removed
IsSpace(c) == c \in {" ", "\t", "\n", "\r", "\f"}

RECURSIVE LStrip(_)
LStrip(s) == IF s # <<>> /\ IsSpace(Head(s)) THEN LStrip(Tail(s)) ELSE s

RECURSIVE RStrip(_)
RStrip(s) ==
    IF s # <<>> /\ IsSpace(s[Len(s)]) THEN RStrip(SubSeq(s, 1, Len(s) - 1)) ELSE s

Strip(s) == RStrip(LStrip(s))

\* str.replace('Z', '+00:00'): every Z, wherever it stands
RECURSIVE ReplaceZ(_)
ReplaceZ(s) ==
    IF s = <<>> THEN <<>>
    ELSE IF Head(s) = "Z" THEN <<"+", "0", "0", ":", "0", "0">> \o ReplaceZ(Tail(s))
    ELSE <<Head(s)>> \o ReplaceZ(Tail(s))

AllDigits(s) == \A i \in 1..Len(s) : IsDigit(s[i])

\* the number a string of digits writes
RECURSIVE Num(_)
Num(s) == IF s = <<>> THEN 0 ELSE 10 * Num(SubSeq(s, 1, Len(s) - 1)) + DigitVal(s[Len(s)])

\* n written with w digits, zero padded
RECURSIVE Pad(_, _)
Pad(n, w) == IF w = 0 THEN <<>> ELSE Pad(n \div 10, w - 1) \o <<Digits[(n % 10) + 1]>>

(***************************************************************************)
(* datetime: fromisoformat and isoformat.                                  *)
(* FromIsoformat decides the extended format                               *)
(*   YYYY-MM-DD[<sep>HH[:MM[:SS[.f{1,6}]]][Z|(+|-)HH:MM]]                   *)
(* as CPython 3.11 does; every date the model feeds it is within this      *)
(* format or is rejected by CPython as well.                               *)
(***************************************************************************)
IsLeap(y) == (y % 4 = 0 /\ y % 100 # 0) \/ y % 400 = 0

DaysInMonth(y, m) ==
    IF m = 2 THEN (IF IsLeap(y) THEN 29 ELSE 28)
    ELSE IF m \in {4, 6, 9, 11} THEN 30 ELSE 31

Invalid == [ok |-> FALSE]

ParseDate(s) ==
    IF /\ Len(s) = 10
       /\ s[5] = "-" /\ s[8] = "-"
       /\ AllDigits(SubSeq(s, 1, 4)) /\ AllDigits(SubSeq(s, 6, 7))
       /\ AllDigits(SubSeq(s, 9, 10))
    THEN LET y == Num(SubSeq(s, 1, 4))
             m == Num(SubSeq(s, 6, 7))
             d == Num(SubSeq(s, 9, 10))
         IN  IF y >= 1 /\ m \in 1..12 /\ d >= 1 /\ d <= DaysInMonth(y, m)
             THEN [ok |-> TRUE, year |-> y, month |-> m, day |-> d]
             ELSE Invalid
    ELSE Invalid

\* the fraction's digits read as microseconds (".5" is 500000)
FracMicros(f) == Num(f \o [i \in 1..(6 - Len(f)) |-> "0"])

ParseTime(t) ==
    LET n == Len(t)
        shape ==
            /\ n \in {2, 5, 8} \cup 10..15
            /\ AllDigits(SubSeq(t, 1, 2))
            /\ n >= 5 => (t[3] = ":" /\ AllDigits(SubSeq(t, 4, 5)))
            /\ n >= 8 => (t[6] = ":" /\ AllDigits(SubSeq(t, 7, 8)))
            /\ n >= 10 => (t[9] = "." /\ AllDigits(SubSeq(t, 10, n)) /\ n - 9 <= 6)
    IN  IF shape
        THEN LET h == Num(SubSeq(t, 1, 2))
                 mi == IF n >= 5 THEN Num(SubSeq(t, 4, 5)) ELSE 0
                 sec == IF n >= 8 THEN Num(SubSeq(t, 7, 8)) ELSE 0
                 us == IF n >= 10 THEN FracMicros(SubSeq(t, 10, n)) ELSE 0
             IN  IF h <= 23 /\ mi <= 59 /\ sec <= 59
                 THEN [ok |-> TRUE, hour |-> h, minute |-> mi, second |-> sec,
                       microsecond |-> us]
                 ELSE Invalid
        ELSE Invalid

\* the zone suffix: the offset must be less than a day (the minutes are not
\* otherwise bounded)
ParseTz(z) ==
    IF z = <<>> THEN [ok |-> TRUE, aware |-> FALSE, offset |-> 0]
    ELSE IF z = <<"Z">> THEN [ok |-> TRUE, aware |-> TRUE, offset |-> 0]
    ELSE IF /\ Len(z) = 6
            /\ z[1] \in {"+", "-"}
            /\ AllDigits(SubSeq(z, 2, 3)) /\ z[4] = ":" /\ AllDigits(SubSeq(z, 5, 6))
            /\ 60 * Num(SubSeq(z, 2, 3)) + Num(SubSeq(z, 5, 6)) < 1440
    THEN [ok |-> TRUE, aware |-> TRUE,
          offset |-> (IF z[1] = "-" THEN -1 ELSE 1)
                     * (60 * Num(SubSeq(z, 2, 3)) + Num(SubSeq(z, 5, 6)))]
    ELSE Invalid

\* index of the first character of the zone suffix of r, or 0
TzPos(r) ==
    IF \E i \in 1..Len(r) : r[i] \in {"+", "-", "Z"}
    THEN CHOOSE i \in 1..Len(r) :
            /\ r[i] \in {"+", "-", "Z"}
            /\ \A j \in 1..(i - 1) : r[j] \notin {"+", "-", "Z"}
    ELSE 0

\* datetime.fromisoformat(s): [ok |-> FALSE] stands for ValueError
FromIsoformat(s) ==
    IF Len(s) < 10 \/ Len(s) = 11 THEN Invalid
    ELSE LET date == ParseDate(SubSeq(s, 1, 10))
             r == SubSeq(s, 12, Len(s))
             p == TzPos(r)
             time == IF Len(s) = 10
                     THEN [ok |-> TRUE, hour |-> 0, minute |-> 0, second |-> 0,
                           microsecond |-> 0]
                     ELSE ParseTime(IF p = 0 THEN r ELSE SubSeq(r, 1, p - 1))
             tz == IF Len(s) = 10 \/ p = 0 THEN ParseTz(<<>>)
                   ELSE ParseTz(SubSeq(r, p, Len(r)))
         IN  IF date.ok /\ time.ok /\ tz.ok
             THEN [ok |-> TRUE, year |-> date.year, month |-> date.month,
                   day |-> date.day, hour |-> time.hour, minute |-> time.minute,
                   second |-> time.second, microsecond |-> time.microsecond,
                   aware |-> tz.aware, offset |-> tz.offset]
             ELSE Invalid

\* datetime.isoformat() of a naive datetime: the fraction only when nonzero
Isoformat(t) ==
    Pad(t.year, 4) \o <<"-">> \o Pad(t.month, 2) \o <<"-">> \o Pad(t.day, 2)
    \o <<"T">> \o Pad(t.hour, 2) \o <<":">> \o Pad(t.minute, 2) \o <<":">>
    \o Pad(t.second, 2)
    \o (IF t.microsecond = 0 THEN <<>> ELSE <<".">> \o Pad(t.microsecond, 6))


(***************************************************************************)
(* Values the requests carry.                                              *)
(***************************************************************************)
\* Python's None / BSON null
Null == <<"<null>">>

\* teachers_collection: the accounts find_one({"_id": username}) finds
TeacherDirectory == {"t1"}

Usernames == {"t1", "ghost"}

\* " a\n"
MsgPadded == <<" ", "a", "\n">>

\* "old"
MsgOld == <<"o", "l", "d">>

Messages == {MsgPadded}

\* "2025-06-01 23:00:00": a space for the T, as str(datetime) writes it
DateSpace == <<"2", "0", "2", "5", "-", "0", "6", "-", "0", "1", " ", "2", "3", ":", "0", "0", ":", "0", "0">>

\* "2099-01-01T00:00:00Z"
DateFarZ == <<"2", "0", "9", "9", "-", "0", "1", "-", "0", "1", "T", "0", "0", ":", "0", "0", ":", "0", "0", "Z">>

\* "2025-06-02T00:00:00"
DateJune2 == <<"2", "0", "2", "5", "-", "0", "6", "-", "0", "2", "T", "0", "0", ":", "0", "0", ":", "0", "0">>

\* "not-a-date"
DateBad == <<"n", "o", "t", "-", "a", "-", "d", "a", "t", "e">>

\* "2025-05-01T08:00:00"
DateMay == <<"2", "0", "2", "5", "-", "0", "5", "-", "0", "1", "T", "0", "8", ":", "0", "0", ":", "0", "0">>

\* the (start_date, end_date) pairs requests are made with
\* the date strings the requests and the documents carry
DateInputs == {Null, <<>>, DateSpace, DateFarZ, DateJune2, DateBad, DateMay}

\* datetime.fromisoformat(x.replace('Z', '+00:00')) of each, worked out once
ParsedInputs == [x \in DateInputs |-> FromIsoformat(ReplaceZ(x))]

Parsed(x) == IF x \in DateInputs THEN ParsedInputs[x] ELSE FromIsoformat(ReplaceZ(x))

DatePairs ==
    { <<Null, DateSpace>>, <<DateJune2, DateFarZ>>, <<<<>>, DateFarZ>>,
      <<Null, DateBad>>, <<DateBad, DateFarZ>> }

\* what a request finds the database doing: answering, or raising on the
\* teacher lookup, or raising on the announcements collection
Faults == {"none", "teachers", "announcements"}

(***************************************************************************)
(* bson.ObjectId.                                                          *)
(***************************************************************************)
ObjectIdHexLen == 24

IsHex(c) == IsDigit(c) \/ c \in {"a", "b", "c", "d", "e", "f", "A", "B", "C", "D", "E", "F"}

Lower(c) ==
    CASE c = "A" -> "a" [] c = "B" -> "b" [] c = "C" -> "c"
      [] c = "D" -> "d" [] c = "E" -> "e" [] c = "F" -> "f"
      [] OTHER -> c

\* bytes.fromhex(s): pairs of hexadecimal digits, with whitespace skipped
\* before a pair (not inside one); hex is the bytes as hexlify writes them
RECURSIVE FromHex(_)
FromHex(s) ==
    IF s = <<>> THEN [ok |-> TRUE, hex |-> <<>>]
    ELSE IF IsSpace(Head(s)) THEN FromHex(Tail(s))
    ELSE IF Len(s) >= 2 /\ IsHex(s[1]) /\ IsHex(s[2])
    THEN LET rest == FromHex(SubSeq(s, 3, Len(s)))
         IN  IF rest.ok
             THEN [ok |-> TRUE, hex |-> <<Lower(s[1]), Lower(s[2])>> \o rest.hex]
             ELSE Invalid
    ELSE Invalid

\* the n-th id the store hands out
Oid(n) == [i \in 1..ObjectIdHexLen |-> IF i = ObjectIdHexLen THEN Digits[n + 1] ELSE "0"]

\* "00000000000000000000000A": well formed, an id no document ever gets
NeverId == [i \in 1..ObjectIdHexLen |-> IF i = ObjectIdHexLen THEN "A" ELSE "0"]

\* "xyz"
BadId == <<"x", "y", "z">>

\* "00 00 00 00 00 00 00 00 ": 24 characters that ObjectId accepts as the
\* eight bytes 0000000000000000
SpacedId ==
    <<"0", "0", " ", "0", "0", " ", "0", "0", " ", "0", "0", " ",
      "0", "0", " ", "0", "0", " ", "0", "0", " ", "0", "0", " ">>

IdInputs == {Oid(n) : n \in 1..MaxRecords} \cup {NeverId, BadId, SpacedId}

\* FromHex of the ids the requests carry, worked out once
HexOfInputs == [s \in IdInputs |-> FromHex(s)]

HexOf(s) == IF s \in IdInputs THEN HexOfInputs[s] ELSE FromHex(s)

\* ObjectId(s) succeeds on a string of 24 characters that bytes.fromhex
\* reads, and raises otherwise; the bytes read are not counted, so a string
\* with whitespace in it gives an id of fewer than twelve bytes
ValidObjectId(s) == Len(s) = ObjectIdHexLen /\ HexOf(s).ok

\* the id ObjectId(s) denotes, written as str() writes it
ObjectId(s) == HexOf(s).hex

(***************************************************************************)
(* The wall clock: datetime.now() at the k-th reading.                     *)
(***************************************************************************)
\* the readings: 2025-06-01T10:00:00 and, a day and five microseconds on,
\* 2025-06-02T10:00:00.000005
ClockReadings ==
    << [year |-> 2025, month |-> 6, day |-> 1, hour |-> 10, minute |-> 0,
        second |-> 0, microsecond |-> 0],
       [year |-> 2025, month |-> 6, day |-> 2, hour |-> 10, minute |-> 0,
        second |-> 0, microsecond |-> 5] >>

Instant(k) == ClockReadings[k]

\* isoformat() of each reading, worked out once
ReadingTexts == [k \in 1..Len(ClockReadings) |-> Isoformat(Instant(k))]

(***************************************************************************)
(* Documents and the announcements collection.                             *)
(***************************************************************************)
\* dict.get(key, default)
Get(doc, key, default) == IF key \in DOMAIN doc THEN doc[key] ELSE default

\* {"$set": upd} applied to doc
SetFields(doc, upd) ==
    [k \in DOMAIN doc \cup DOMAIN upd |-> IF k \in DOMAIN upd THEN upd[k] ELSE doc[k]]

\* the document with "_id" written as a string
Serialise(oid, doc) == SetFields(doc, [_id |-> oid])

\* a document written before the active flag existed
LegacyDoc ==
    [message |-> MsgOld, start_date |-> Null, end_date |-> DateFarZ,
     created_by |-> "t1", created_at |-> DateMay]

\* the query of get_active_announcements against one document and current_time
MatchesActive(doc, now) ==
    /\ "active" \in DOMAIN doc /\ doc.active = TRUE
    /\ \/ Get(doc, "start_date", Null) = Null
       \/ StrLeq(doc.start_date, now)
    /\ Get(doc, "end_date", Null) # Null
    /\ StrLeq(now, doc.end_date)

\* oldest first
SortAscending(s, ids) ==
    { r \in [1..Cardinality(ids) -> ids] :
        /\ \A i, j \in 1..Cardinality(ids) : i # j => r[i] # r[j]
        /\ \A i \in 1..(Cardinality(ids) - 1) :
              StrLeq(s[r[i]].created_at, s[r[i + 1]].created_at) }

\* sort("created_at", -1): every order of ids whose created_at never increases
\* (the store leaves the order of equal keys open)
SortDescending(s, ids) ==
    { r \in [1..Cardinality(ids) -> ids] :
        /\ \A i, j \in 1..Cardinality(ids) : i # j => r[i] # r[j]
        /\ \A i \in 1..(Cardinality(ids) - 1) :
              StrLeq(s[r[i + 1]].created_at, s[r[i]].created_at) }

\* list(find(query).sort(...)) with each "_id" made a string
FindActive(s, now) ==
    { [i \in 1..Len(r) |-> Serialise(r[i], s[r[i]])] :
        r \in SortDescending(s, {o \in DOMAIN s : MatchesActive(s[o], now)}) }

FindAll(s) ==
    { [i \in 1..Len(r) |-> Serialise(r[i], s[r[i]])] : r \in SortDescending(s, DOMAIN s) }

\* a match is reported whatever the collection holds
MatchedCountAlways(s, oid) == 1

\* update_one / delete_one: how many documents the filter {"_id": oid} matched
MatchedCount(s, oid) == IF oid \in DOMAIN s THEN 1 ELSE 0

\* the collection without the document oid
Without(s, oid) == [o \in DOMAIN s \ {oid} |-> s[o]]

\* the collection with a new document
With(s, oid, doc) == [o \in DOMAIN s \cup {oid} |-> IF o = oid THEN doc ELSE s[o]]

(***************************************************************************)
(* Steps shared by the handlers.                                           *)
(***************************************************************************)
\* Python truthiness of an Optional[str]
Truthy(x) == x # Null /\ x # <<>>

\* the "Validate dates" block: no ValueError
DatesValid(start, end) ==
    /\ Parsed(end).ok
    /\ Truthy(start) => Parsed(start).ok

\* what get_active_announcements answers when the try block raised:
\* "return []", which the framework sends as 200
GetActiveOnErrorRaise == [status |-> 500, body |-> <<>>]

GetActiveOnError == [status |-> 200, body |-> <<>>]

\* every account passes
AuthenticatedAny(u) == TRUE

\* teachers_collection.find_one({"_id": teacher_username}) found an account
Authenticated(u) == u \in TeacherDirectory

\* a missing flag read as False
NewStatusDefaultFalse(doc) == ~Get(doc, "active", FALSE)

\* toggle_announcement_status: the flag it writes
NewStatus(doc) == ~Get(doc, "active", TRUE)

\* the message stored as received
AnnouncementDocUnstripped(u, msg, start, end, now) ==
    [message |-> msg, start_date |-> start, end_date |-> end,
     created_by |-> u, created_at |-> now, active |-> TRUE]

\* create_announcement: the document it inserts
AnnouncementDoc(u, msg, start, end, now) ==
    [message |-> Strip(msg), start_date |-> start, end_date |-> end,
     created_by |-> u, created_at |-> now, active |-> TRUE]

\* update_announcement: the fields it sets
UpdateDoc(msg, start, end, act) ==
    [message |-> Strip(msg), start_date |-> start, end_date |-> end, active |-> act]


(***************************************************************************)
(* State.                                                                  *)
(*   store     announcements_collection: ObjectId -> document              *)
(*   nextId    how many ids the store has handed out, plus one             *)
(*   clock     the reading datetime.now() gives                            *)
(*   inflight  the toggle requests that have run find_one and not yet      *)
(*             update_one, each with its locals (a bag: two requests may   *)
(*             hold the same values)                                       *)
(*   last      the request being answered: its arguments and its response, *)
(*             or NoCall when no response is being sent                    *)
(*   pre       the collection as the last store operation of the request   *)
(*             being answered found it                                     *)
(*   chain     history: a toggle that reads its record while no other is   *)
(*             pending may be marked; the collection it read is kept, and  *)
(*             while the mark stands                                       *)
(*             the model follows only that toggle's write, its answer, and *)
(*             one more toggle of the same record (every other             *)
(*             continuation is followed from the state that marked         *)
(*             nothing, which is the same in all the program's variables)  *)
(***************************************************************************)
VARIABLES store, nextId, clock, inflight, last, pre, chain

vars == <<store, nextId, clock, inflight, last, pre, chain>>

NoCall == [op |-> "none"]

NoChain == [set |-> FALSE]

EmptyStore == [o \in {} |-> LegacyDoc]

Init ==
    /\ \/ store = EmptyStore /\ nextId = 1
       \/ store = With(EmptyStore, Oid(1), LegacyDoc) /\ nextId = 2
    /\ clock = 1
    /\ inflight = EmptyBag
    /\ last = NoCall
    /\ pre = EmptyStore
    /\ chain = NoChain

Idle == last = NoCall

\* no response being sent, and no toggle marked
Free == Idle /\ ~chain.set

\* no toggle is between its read and its write
Quiet == inflight = EmptyBag

\* datetime.now().isoformat() at the k-th reading
Reading(k) == ReadingTexts[k]

\* the clock as it stands
Now == Reading(clock)

\* A handler reads the clock first and sends its store operation afterwards,
\* a blocking round trip during which the clock and the other requests go
\* on.  When the store operation runs, the reading the handler holds is the
\* clock's of some moment since the request arrived: any reading so far.
Readings == 1..clock

(***************************************************************************)
(* The wall clock advances (a handler reads it once).                      *)
(***************************************************************************)
Tick ==
    /\ Idle
    /\ clock < Len(ClockReadings)
    /\ clock' = clock + 1
    /\ UNCHANGED <<store, nextId, inflight, last, pre, chain>>

(***************************************************************************)
(* GET /active                                                             *)
(***************************************************************************)
\* k: the reading current_time was taken at; find runs now
GetActiveAnnouncements(fault, k) ==
    /\ Free
    /\ k \in Readings
    /\ \E r \in (IF fault = "announcements" THEN {GetActiveOnError}
                 ELSE {[status |-> 200, body |-> b] :
                          b \in FindActive(store, Reading(k))}) :
          last' = [op |-> "get_active", status |-> r.status, body |-> r.body,
                   now |-> Reading(k), fault |-> fault]
    /\ pre' = store
    /\ UNCHANGED <<store, nextId, clock, inflight, chain>>

(***************************************************************************)
(* GET /all                                                                *)
(***************************************************************************)
GetAllStatus(u, fault) ==
    IF fault = "teachers" THEN 500
    ELSE IF ~Authenticated(u) THEN 401
    ELSE IF fault = "announcements" THEN 500
    ELSE 200

GetAllAnnouncements(u, fault) ==
    /\ Free
    /\ LET st == GetAllStatus(u, fault)
       IN  \E body \in (IF st = 200 THEN FindAll(store) ELSE {<<>>}) :
              last' = [op |-> "get_all", teacher_username |-> u, status |-> st,
                       body |-> body, fault |-> fault]
    /\ pre' = store
    /\ UNCHANGED <<store, nextId, clock, inflight, chain>>

(***************************************************************************)
(* POST /create                                                            *)
(***************************************************************************)
CreateStatus(u, start, end, fault) ==
    IF fault = "teachers" THEN 500
    ELSE IF ~Authenticated(u) THEN 401
    ELSE IF ~DatesValid(start, end) THEN 400
    ELSE IF fault = "announcements" THEN 500
    ELSE 200

\* k: the reading created_at was taken at; insert_one runs now
CreateAnnouncement(u, msg, start, end, fault, k) ==
    /\ Free
    /\ k \in Readings
    /\ LET st == CreateStatus(u, start, end, fault)
           doc == AnnouncementDoc(u, msg, start, end, Reading(k))
           oid == Oid(nextId)
       IN  /\ st = 200 => nextId <= MaxRecords
           /\ store' = IF st = 200 THEN With(store, oid, doc) ELSE store
           /\ nextId' = IF st = 200 THEN nextId + 1 ELSE nextId
           /\ last' = [op |-> "create", teacher_username |-> u, message |-> msg,
                       start_date |-> start, end_date |-> end, status |-> st,
                       body |-> IF st = 200 THEN Serialise(oid, doc) ELSE Null,
                       fault |-> fault]
    /\ pre' = store
    /\ UNCHANGED <<clock, inflight, chain>>

(***************************************************************************)
(* PUT /update/{announcement_id}                                           *)
(***************************************************************************)
UpdateStatus(s, u, id, start, end, fault) ==
    IF fault = "teachers" THEN 500
    ELSE IF ~Authenticated(u) THEN 401
    ELSE IF ~ValidObjectId(id) THEN 400
    ELSE IF ~DatesValid(start, end) THEN 400
    ELSE IF fault = "announcements" THEN 500
    ELSE IF MatchedCount(s, ObjectId(id)) = 0 THEN 404
    ELSE 200

UpdateAnnouncement(u, id, msg, start, end, act, fault) ==
    /\ Free
    /\ LET st == UpdateStatus(store, u, id, start, end, fault)
       IN  /\ store' = IF st = 200
                       THEN [store EXCEPT ![ObjectId(id)] =
                                SetFields(@, UpdateDoc(msg, start, end, act))]
                       ELSE store
           /\ last' = [op |-> "update", teacher_username |-> u, id |-> id,
                       message |-> msg, start_date |-> start, end_date |-> end,
                       active |-> act, status |-> st, fault |-> fault]
    /\ pre' = store
    /\ UNCHANGED <<nextId, clock, inflight, chain>>

(***************************************************************************)
(* DELETE /delete/{announcement_id}                                        *)
(***************************************************************************)
DeleteStatus(s, u, id, fault) ==
    IF fault = "teachers" THEN 500
    ELSE IF ~Authenticated(u) THEN 401
    ELSE IF ~ValidObjectId(id) THEN 400
    ELSE IF fault = "announcements" THEN 500
    ELSE IF MatchedCount(s, ObjectId(id)) = 0 THEN 404
    ELSE 200

DeleteAnnouncement(u, id, fault) ==
    /\ Free
    /\ LET st == DeleteStatus(store, u, id, fault)
       IN  /\ store' = IF st = 200 THEN Without(store, ObjectId(id)) ELSE store
           /\ last' = [op |-> "delete", teacher_username |-> u, id |-> id,
                       status |-> st, fault |-> fault]
    /\ pre' = store
    /\ UNCHANGED <<nextId, clock, inflight, chain>>

(***************************************************************************)
(* PUT /toggle/{announcement_id}.  The handler reads the record with       *)
(* find_one and writes it with a separate update_one; the store makes each *)
(* of the two atomic, nothing holds the record in between, and the handler *)
(* runs in a pool of threads, so other requests' steps fall between the    *)
(* two.                                                                    *)
(***************************************************************************)
\* the checks up to and including find_one
ToggleFindStatus(s, u, id, fault) ==
    IF fault = "teachers" THEN 500
    ELSE IF ~Authenticated(u) THEN 401
    ELSE IF ~ValidObjectId(id) THEN 400
    ELSE IF fault = "announcements" THEN 500
    ELSE IF ObjectId(id) \notin DOMAIN s THEN 404
    ELSE 200

\* the locals of a request that has read its record
ToggleLocals(s, u, id) ==
    [teacher_username |-> u, id |-> id, obj_id |-> ObjectId(id),
     new_status |-> NewStatus(s[ObjectId(id)])]

\* up to and including find_one and the computation of new_status: the
\* request is answered with an error, or goes on to its write
ToggleFind(u, id, fault) ==
    /\ Idle
    /\ IF ToggleFindStatus(store, u, id, fault) = 200
       THEN LET req == ToggleLocals(store, u, id)
            IN  /\ BagCardinality(inflight) < MaxProcs
                /\ inflight' = inflight (+) SetToBag({req})
                /\ \/ ~chain.set /\ chain' = NoChain
                   \/ /\ ~chain.set /\ Quiet
                      /\ chain' = [set |-> TRUE, stage |-> "first", id |-> req.obj_id,
                                   store |-> store, req |-> req]
                   \/ /\ chain.set /\ chain.stage = "between"
                      /\ chain.id = req.obj_id
                      /\ chain' = [chain EXCEPT !.stage = "second", !.req = req]
                /\ UNCHANGED <<last, pre>>
       ELSE /\ ~chain.set
            /\ last' = [op |-> "toggle", teacher_username |-> u, id |-> id,
                        status |-> ToggleFindStatus(store, u, id, fault),
                        fault |-> fault, body |-> [active |-> Null],
                        found |-> FALSE, seen |-> Null, orig |-> NoChain]
            /\ pre' = store
            /\ UNCHANGED <<inflight, chain>>
    /\ UNCHANGED <<store, nextId, clock>>

\* the answer of the rest of the handler: update_one raised, matched nothing,
\* or wrote the flag
ToggleWriteStatus(s, req, fault) ==
    IF fault = "announcements" THEN 500
    ELSE IF MatchedCount(s, req.obj_id) = 0 THEN 404
    ELSE 200

\* update_one({"_id": obj_id}, {"$set": {"active": new_status}}) and the
\* response; seen is history: the flag, or its default, as the write found it
ToggleWrite(req, fault) ==
    /\ Idle
    /\ BagIn(req, inflight)
    /\ chain.set => (chain.stage \in {"first", "second"} /\ chain.req = req)
    /\ LET st == ToggleWriteStatus(store, req, fault)
       IN  /\ store' = IF st = 200
                       THEN [store EXCEPT ![req.obj_id] =
                                SetFields(@, [active |-> req.new_status])]
                       ELSE store
           /\ last' = [op |-> "toggle", teacher_username |-> req.teacher_username,
                       id |-> req.id, status |-> st, fault |-> fault,
                       body |-> IF st = 200 THEN [active |-> req.new_status]
                                ELSE [active |-> Null],
                       found |-> TRUE,
                       seen |-> IF req.obj_id \in DOMAIN store
                                THEN Get(store[req.obj_id], "active", TRUE) ELSE Null,
                       orig |-> IF st = 200 /\ chain.set /\ chain.stage = "second"
                                THEN chain ELSE NoChain]
           /\ chain' = IF st = 200 /\ chain.set /\ chain.stage = "first"
                       THEN [chain EXCEPT !.stage = "between"] ELSE NoChain
    /\ inflight' = inflight (-) SetToBag({req})
    /\ pre' = store
    /\ UNCHANGED <<nextId, clock>>

(***************************************************************************)
(* The response is sent; the request is over.                              *)
(***************************************************************************)
Respond ==
    /\ ~Idle
    /\ last' = NoCall
    /\ pre' = EmptyStore
    /\ UNCHANGED <<store, nextId, clock, inflight, chain>>

(***************************************************************************)
(* The requests made.  A caller the directory knows, with the database     *)
(* answering, makes every request the input sets allow; an unknown caller  *)
(* or a failing database is tried with well-formed and malformed           *)
(* arguments both.                                                         *)
(* Between a toggle's read and its write the requests followed are those   *)
(* that name the record it read: a request on another document, a create,  *)
(* a listing, and a request answered with an error each commute with the   *)
(* read (which writes nothing) or with both steps, and no handler reads    *)
(* inflight, so each does there what it does just before the read.  An     *)
(* update_one that raises writes nothing either, and is followed for a     *)
(* toggle pending alone.                                                   *)
(***************************************************************************)
\* (the teacher lookup that raises does so before the account is known)
Callers ==
    { c \in [teacher_username : Usernames, fault : Faults] :
        /\ c.teacher_username \notin TeacherDirectory \/ c.fault # "none"
        /\ c.fault = "teachers" => c.teacher_username \in TeacherDirectory }

GoodCaller == [teacher_username |-> "t1", fault |-> "none"]

ProbePairs == { <<Null, DateSpace>>, <<Null, DateBad>> }

ProbeIds == { Oid(1), BadId }

OverlapPairs == { <<Null, DateSpace>> }

\* the records the pending toggles read
InflightIds == { req.obj_id : req \in BagToSet(inflight) }

\* the ids, dates and flags the known caller's requests are made with
IdsNow == IF Quiet THEN IdInputs ELSE InflightIds

PairsNow == IF Quiet THEN DatePairs ELSE OverlapPairs

ActiveNow == IF Quiet THEN BOOLEAN ELSE {FALSE}

Next ==
    \/ Quiet /\ Tick
    \/ Respond
    \/ \E f \in Faults \ {"teachers"}, k \in Readings :
          Quiet /\ GetActiveAnnouncements(f, k)
    \/ Quiet /\ GetAllAnnouncements(GoodCaller.teacher_username, GoodCaller.fault)
    \/ \E c \in Callers : Quiet /\ GetAllAnnouncements(c.teacher_username, c.fault)
    \/ \E m \in Messages, d \in DatePairs, k \in Readings :
          /\ Quiet
          /\ CreateAnnouncement(GoodCaller.teacher_username, m, d[1], d[2],
                                GoodCaller.fault, k)
    \/ \E c \in Callers, m \in Messages, d \in ProbePairs :
          Quiet /\ CreateAnnouncement(c.teacher_username, m, d[1], d[2], c.fault, clock)
    \/ \E i \in IdsNow, m \in Messages, d \in PairsNow, a \in ActiveNow :
          UpdateAnnouncement(GoodCaller.teacher_username, i, m, d[1], d[2], a,
                             GoodCaller.fault)
    \/ \E c \in Callers, i \in ProbeIds, m \in Messages, d \in ProbePairs :
          Quiet /\ UpdateAnnouncement(c.teacher_username, i, m, d[1], d[2], TRUE, c.fault)
    \/ \E i \in IdsNow :
          DeleteAnnouncement(GoodCaller.teacher_username, i, GoodCaller.fault)
    \/ \E c \in Callers, i \in ProbeIds :
          Quiet /\ DeleteAnnouncement(c.teacher_username, i, c.fault)
    \/ \E i \in IdsNow :
          ToggleFind(GoodCaller.teacher_username, i, GoodCaller.fault)
    \/ \E c \in Callers, i \in ProbeIds :
          Quiet /\ ToggleFind(c.teacher_username, i, c.fault)
    \/ \E req \in BagToSet(inflight) : ToggleWrite(req, GoodCaller.fault)
    \/ \E req \in BagToSet(inflight) :
          BagCardinality(inflight) = 1 /\ ToggleWrite(req, "announcements")

Spec == Init /\ [][Next]_vars


(***************************************************************************)
(* Time as the claims mean it: instants compared chronologically.  A naive *)
(* datetime is read in the server's zone, taken to be UTC.                 *)
(***************************************************************************)
DaysBeforeYear(y) == 365 * (y - 1) + (y - 1) \div 4 - (y - 1) \div 100 + (y - 1) \div 400

RECURSIVE DaysBeforeMonth(_, _)
DaysBeforeMonth(y, m) ==
    IF m = 1 THEN 0 ELSE DaysBeforeMonth(y, m - 1) + DaysInMonth(y, m - 1)

\* <<minutes since 0001-01-01T00:00 UTC, second, microsecond>>
ChronoKey(p) ==
    << ((DaysBeforeYear(p.year) + DaysBeforeMonth(p.year, p.month) + p.day - 1) * 24
         + p.hour) * 60 + p.minute - p.offset,
       p.second, p.microsecond >>

KeyLeq(a, b) ==
    \/ a[1] < b[1]
    \/ a[1] = b[1] /\ a[2] < b[2]
    \/ a[1] = b[1] /\ a[2] = b[2] /\ a[3] <= b[3]

\* the timestamps x and y both denote instants, and x is not after y
NotAfter(x, y) ==
    /\ FromIsoformat(x).ok /\ FromIsoformat(y).ok
    /\ KeyLeq(ChronoKey(FromIsoformat(x)), ChronoKey(FromIsoformat(y)))

\* "currently active" at the instant now (an empty start_date counts as
\* absent, as the handlers count it)
CurrentlyActive(doc, now) ==
    /\ "active" \in DOMAIN doc /\ doc.active = TRUE
    /\ ~Truthy(doc.start_date) \/ NotAfter(doc.start_date, now)
    /\ NotAfter(now, doc.end_date)

\* a serialised document without its "_id"
Stored(d) == [k \in DOMAIN d \ {"_id"} |-> d[k]]

(***************************************************************************)
(* C1: listActive returns exactly the announcements that are currently     *)
(* active at the instant of the query: active = true, start_date null or   *)
(* not after now, end_date not before now.                                 *)
(* The code compares the stored strings with the store's string order,     *)
(* which is not the chronological order for every date it accepts.         *)
(***************************************************************************)
C1_ListActiveExact ==
    (last.op = "get_active" /\ last.fault = "none") =>
        \A o \in DOMAIN pre :
            (\E i \in 1..Len(last.body) : last.body[i]._id = o)
                <=> CurrentlyActive(pre[o], last.now)

(***************************************************************************)
(* C2: listActive never ends in an error: it answers 200 with a sequence;  *)
(* when the store operation fails the sequence is empty; the store is      *)
(* unchanged.                                                              *)
(***************************************************************************)
C2_ListActiveNeverRaises ==
    last.op = "get_active" =>
        /\ last.status = 200
        /\ last.body \in Seq(UNION {{Serialise(o, pre[o])} : o \in DOMAIN pre})
        /\ last.fault = "announcements" => last.body = <<>>
        /\ store = pre

\* the store fails while it holds a document the query would have returned
C2_Witness ==
    /\ last.op = "get_active"
    /\ last.fault = "announcements"
    /\ \E o \in DOMAIN pre : MatchesActive(pre[o], last.now)

(***************************************************************************)
(* C3: with the directory lookup answering, listAll, create, update,       *)
(* delete and toggleActive called with a teacher_username the directory    *)
(* does not hold answer 401 and leave the store unchanged, whatever the    *)
(* other arguments are.                                                    *)
(***************************************************************************)
C3_UnknownTeacherUnauthorized ==
    (/\ last.op \in {"get_all", "create", "update", "delete", "toggle"}
     /\ last.teacher_username \notin TeacherDirectory
     /\ last.fault # "teachers") =>
        (last.status = 401 /\ store = pre)

\* an update by an unknown caller with a malformed id and an unparseable date
C3_Witness ==
    /\ last.op = "update"
    /\ last.teacher_username \notin TeacherDirectory
    /\ ~ValidObjectId(last.id)
    /\ ~FromIsoformat(last.end_date).ok
    /\ last.status = 401


\* the timestamp parses as ISO-8601, a Z read as +00:00
IsoParses(x) == FromIsoformat(ReplaceZ(x)).ok

(***************************************************************************)
(* C4: a create by an existing teacher whose end_date does not parse, or   *)
(* whose given start_date does not parse, answers 400 and inserts nothing; *)
(* update validates the same way and modifies nothing.                     *)
(* An empty start_date is given, does not parse, and is let through.       *)
(***************************************************************************)
C4_BadDatesRejected ==
    (/\ last.op \in {"create", "update"}
     /\ Authenticated(last.teacher_username)
     /\ last.fault # "teachers"
     /\ \/ ~IsoParses(last.end_date)
        \/ last.start_date # Null /\ ~IsoParses(last.start_date)) =>
        (last.status = 400 /\ store = pre)

\* a well-formed id as the claims mean it: 24 hexadecimal digits
WellFormedId(s) == Len(s) = ObjectIdHexLen /\ \A i \in 1..Len(s) : IsHex(s[i])

(***************************************************************************)
(* C5 as claimed: for an existing teacher and a well-formed id that        *)
(* matches no record, update, delete and toggleActive answer 404 and leave *)
(* the store unchanged.                                                    *)
(***************************************************************************)
C5_MissingIdNotFound_Original ==
    (/\ last.op \in {"update", "delete", "toggle"}
     /\ Authenticated(last.teacher_username)
     /\ last.fault = "none"
     /\ WellFormedId(last.id)
     /\ ObjectId(last.id) \notin DOMAIN pre) =>
        (last.status = 404 /\ store = pre)

(***************************************************************************)
(* C5 as amended: for an existing teacher and a well-formed id that        *)
(* matches no record, delete and toggleActive, and update called with      *)
(* dates that pass its date validation, answer 404 and leave the store     *)
(* unchanged (update validates its dates before it looks the record up).   *)
(***************************************************************************)
C5_MissingIdNotFound ==
    (/\ last.op \in {"update", "delete", "toggle"}
     /\ Authenticated(last.teacher_username)
     /\ last.fault = "none"
     /\ WellFormedId(last.id)
     /\ ObjectId(last.id) \notin DOMAIN pre
     /\ last.op = "update" => DatesValid(last.start_date, last.end_date)) =>
        (last.status = 404 /\ store = pre)

\* a second delete of an id the store handed out and an earlier delete removed
C5_Witness ==
    /\ last.op = "delete"
    /\ last.status = 404
    /\ \E n \in 1..(nextId - 1) : ObjectId(last.id) = Oid(n)

(***************************************************************************)
(* C6: two toggles of one record in succession (the second called after    *)
(* the first was answered 200, no other store operation from the first's   *)
(* read to the second's write): the second returns the record's original   *)
(* active value (true for a record without the field) and stores it; every *)
(* other field of the record and every other record are as they were when  *)
(* the first toggle read the record.                                       *)
(***************************************************************************)
C6_ToggleTwiceRestores ==
    (last.op = "toggle" /\ last.status = 200 /\ last.orig.set) =>
        LET oid == last.orig.id
            before == last.orig.store
            original == Get(before[oid], "active", TRUE)
        IN  /\ last.body.active = original
            /\ DOMAIN store = DOMAIN before
            /\ store[oid].active = original
            /\ DOMAIN store[oid] = DOMAIN before[oid] \cup {"active"}
            /\ \A k \in DOMAIN before[oid] \ {"active"} : store[oid][k] = before[oid][k]
            /\ \A o \in DOMAIN before \ {oid} : store[o] = before[o]

\* the second toggle of a record that had no active field, beside another record
C6_Witness ==
    /\ last.op = "toggle" /\ last.status = 200 /\ last.orig.set
    /\ "active" \notin DOMAIN last.orig.store[last.orig.id]
    /\ Cardinality(DOMAIN store) >= 2

(***************************************************************************)
(* C7: a successful create by teacher t adds exactly one record and        *)
(* changes no other; the record has the message without its surrounding    *)
(* whitespace, active = true, created_by = t, the dates as given, and an   *)
(* id no record had; the announcement returned is the record stored.       *)
(***************************************************************************)
\* m is msg without its leading and trailing whitespace
IsTrimOf(m, msg) ==
    /\ \E i \in 1..(Len(msg) + 1), j \in 0..Len(msg) :
          /\ m = SubSeq(msg, i, j)
          /\ \A k \in 1..(i - 1) : IsSpace(msg[k])
          /\ \A k \in (j + 1)..Len(msg) : IsSpace(msg[k])
    /\ m # <<>> => (~IsSpace(m[1]) /\ ~IsSpace(m[Len(m)]))

C7_CreateAddsOneRecord ==
    (last.op = "create" /\ last.status = 200) =>
        /\ Cardinality(DOMAIN store \ DOMAIN pre) = 1
        /\ \A o \in DOMAIN pre : o \in DOMAIN store /\ store[o] = pre[o]
        /\ \A o \in DOMAIN store \ DOMAIN pre :
              /\ IsTrimOf(store[o].message, last.message)
              /\ store[o].active = TRUE
              /\ store[o].created_by = last.teacher_username
              /\ store[o].end_date = last.end_date
              /\ store[o].start_date = last.start_date
              /\ last.body._id = o
              /\ Stored(last.body) = store[o]

\* a create beside an existing record, with whitespace to strip and no start_date
C7_Witness ==
    /\ last.op = "create" /\ last.status = 200
    /\ pre # EmptyStore
    /\ last.message # Strip(last.message)
    /\ last.start_date = Null

(***************************************************************************)
(* C8: every stored announcement has an end_date that parses as ISO-8601   *)
(* and a start_date that is null or parses.                                *)
(* An empty start_date skips the validation and is stored.                 *)
(***************************************************************************)
C8_StoredDatesParse ==
    \A o \in DOMAIN store :
        /\ IsoParses(store[o].end_date)
        /\ store[o].start_date = Null \/ IsoParses(store[o].start_date)

(***************************************************************************)
(* C9: for an existing teacher (the database answering), listAll answers   *)
(* with every announcement in the store, inactive and expired ones         *)
(* included, each once, newest created_at first, and leaves the store      *)
(* unchanged.                                                              *)
(***************************************************************************)
C9_ListAllEverythingNewestFirst ==
    (/\ last.op = "get_all"
     /\ Authenticated(last.teacher_username)
     /\ last.fault = "none") =>
        /\ last.status = 200
        /\ Len(last.body) = Cardinality(DOMAIN pre)
        /\ \A o \in DOMAIN pre :
              \E i \in 1..Len(last.body) :
                  last.body[i]._id = o /\ Stored(last.body[i]) = pre[o]
        /\ \A i, j \in 1..Len(last.body) :
              i < j => NotAfter(last.body[j].created_at, last.body[i].created_at)
        /\ store = pre

\* a listing of two records created at different instants, one of them
\* switched off and one of them expired
C9_Witness ==
    /\ last.op = "get_all" /\ last.status = 200
    /\ Len(last.body) = 2
    /\ last.body[1].created_at # last.body[2].created_at
    /\ \E i \in 1..2 : Get(last.body[i], "active", TRUE) = FALSE
    /\ \E i \in 1..2 :
          /\ FromIsoformat(last.body[i].end_date).ok
          /\ ~NotAfter(Now, last.body[i].end_date)


(***************************************************************************)
(* C10: when toggles of one record interleave with each other and with     *)
(* updates and deletes, no toggle is lost: every successful toggle writes  *)
(* and returns the negation of the flag stored immediately before its      *)
(* write; and a toggle whose record was deleted after it was read does not *)
(* bring the record back.                                                  *)
(* Two toggles that both read the record before either writes both write   *)
(* the same flag.                                                          *)
(***************************************************************************)
C10_NoToggleLost ==
    (last.op = "toggle" /\ last.found) =>
        /\ last.status = 200 => last.body.active = ~last.seen
        /\ last.status = 404 => ObjectId(last.id) \notin DOMAIN store

=============================================================================
